---------------------------- MODULE Spec2Model ----------------------------
(***************************************************************************)
(* A model of wut/utils.py: the token meter (count_tokens,                 *)
(* truncate_tokens), the pane capturer (get_pane_output), the session      *)
(* segmenter (get_commands, truncate_pane_output), the budgeted truncator  *)
(* (truncate_commands) and the context assembler (get_terminal_context).   *)
(*                                                                         *)
(* A Python str is a sequence of one-character strings; the fixed tags of  *)
(* the context string are single elements of such a sequence.              *)
(***************************************************************************)
EXTENDS Integers, Sequences, FiniteSets, TLC

VARIABLES
    op,            \* "init", or the name of the function that has been called
    text,          \* the str argument: text / output / the pane's scrollback
    prompt,        \* shell.prompt; <<>> stands for None or ""
    max_tokens,    \* the max_tokens argument
    max_commands,  \* the max_commands argument
    reverse,       \* the reverse argument of truncate_tokens
    commands,      \* the commands argument of truncate_commands
    env,           \* which of the environment variables TMUX and STY are set
    proc,          \* how the multiplexer child process ends
    tmpfile,       \* the NamedTemporaryFile: "absent", "exists" or "removed"
    flat,          \* truncate_pane_output's joined lines, before truncation
    result         \* what the call returned or raised

vars == <<op, text, prompt, max_tokens, max_commands, reverse, commands,
          env, proc, tmpfile, flat, result>>

-----------------------------------------------------------------------------
(* Bounds of the model *)

MaxTextLen == 4        \* characters of a text given to the token meter
MaxFlatLen == 6        \* characters of a pane given to truncate_pane_output
MaxPaneLen == 6        \* characters of a pane given to get_commands
MaxPaneLines == 4      \* lines of the scrollback seen by get_terminal_context
MaxCtxTok == 1         \* largest max_tokens given to get_terminal_context
MaxCmds == 4           \* commands given to truncate_commands
MaxTok == 3            \* largest max_tokens
MinTok == 2            \* max_tokens ranges from -MinTok
MaxCommandsArg == 2    \* largest max_commands

-----------------------------------------------------------------------------
(* Python str and list primitives *)

Min(a, b) == IF a < b THEN a ELSE b
Max(a, b) == IF a > b THEN a ELSE b

Reverse(s) == [i \in 1..Len(s) |-> s[Len(s) + 1 - i]]

\* A slice bound i on a list of length n (negative counts from the end).
PyIndex(i, n) == IF i < 0 THEN Max(n + i, 0) ELSE Min(i, n)

\* s[:hi]
SliceTo(s, hi) == SubSeq(s, 1, PyIndex(hi, Len(s)))

\* s[lo:]
SliceFrom(s, lo) == SubSeq(s, PyIndex(lo, Len(s)) + 1, Len(s))

IsSpace(c) == c \in {" ", "\n"}

RECURSIVE LStrip(_)
LStrip(s) ==
    IF s # <<>> /\ IsSpace(Head(s)) THEN LStrip(Tail(s)) ELSE s

\* str.strip()
Strip(s) == Reverse(LStrip(Reverse(LStrip(s))))

LowerChar(c) == IF c = "P" THEN "p" ELSE IF c = "A" THEN "a" ELSE c

\* str.lower()
Lower(s) == [i \in 1..Len(s) |-> LowerChar(s[i])]

\* The first index at which sub occurs in s, 0 when it does not.
Find(sub, s) ==
    LET hits == {i \in 1..(Len(s) - Len(sub) + 1) :
                    SubSeq(s, i, i + Len(sub) - 1) = sub}
    IN  IF hits = {} THEN 0 ELSE CHOOSE i \in hits : \A j \in hits : i <= j

\* sub in s
Contains(sub, s) == Find(sub, s) # 0

\* s.split(sep, 1)
Split1(s, sep) ==
    LET i == Find(sep, s)
    IN  IF i = 0 THEN <<s>>
        ELSE <<SubSeq(s, 1, i - 1), SubSeq(s, i + Len(sep), Len(s))>>

\* str.splitlines(): no empty last line after a final line break.
RECURSIVE SplitLines(_)
SplitLines(s) ==
    IF s = <<>> THEN <<>>
    ELSE LET i == Find(<<"\n">>, s)
         IN  IF i = 0 THEN <<s>>
             ELSE <<SubSeq(s, 1, i - 1)>> \o SplitLines(SubSeq(s, i + 1, Len(s)))

\* "\n".join(lines)
RECURSIVE Join(_)
Join(lines) ==
    IF lines = <<>> THEN <<>>
    ELSE IF Len(lines) = 1 THEN lines[1]
    ELSE lines[1] \o <<"\n">> \o Join(Tail(lines))

-----------------------------------------------------------------------------
(* The tokenizer: a byte-pair encoding in which two adjacent letters merge   *)
(* into one token and every other character is a token of its own.  A token *)
(* is the string it stands for, so decoding is concatenation.               *)

RECURSIVE Encode(_)
Encode(s) ==
    IF s = <<>> THEN <<>>
    ELSE IF Len(s) >= 2 /\ ~IsSpace(s[1]) /\ ~IsSpace(s[2])
         THEN <<SubSeq(s, 1, 2)>> \o Encode(SubSeq(s, 3, Len(s)))
         ELSE <<SubSeq(s, 1, 1)>> \o Encode(Tail(s))

RECURSIVE Decode(_)
Decode(tokens) ==
    IF tokens = <<>> THEN <<>> ELSE Head(tokens) \o Decode(Tail(tokens))

count_tokens(t) == Len(Encode(t))

truncate_tokens_off_by_one(t, n, rev) ==
    LET tokens == Encode(t)
    IN  Decode(IF rev THEN SliceFrom(tokens, -(n - 1)) ELSE SliceTo(tokens, n - 1))

truncate_tokens(t, n, rev) ==
    LET tokens == Encode(t)
    IN  Decode(IF rev THEN SliceFrom(tokens, -n) ELSE SliceTo(tokens, n))

-----------------------------------------------------------------------------
(* Results *)

NoResult ==
    [kind |-> "none", str |-> <<>>, cmds |-> <<>>, previous |-> <<>>,
     last |-> <<>>, n |-> 0, exc |-> ""]

StrResult(s) == [NoResult EXCEPT !.kind = "str", !.str = s]
IntResult(k) == [NoResult EXCEPT !.kind = "int", !.n = k]
CmdsResult(c) == [NoResult EXCEPT !.kind = "cmds", !.cmds = c]
Raised(e) == [NoResult EXCEPT !.kind = "raise", !.exc = e]

Command(t, o) == [text |-> t, output |-> o]

\* All strings over the alphabet of at most n characters.
Strings(alphabet, n) == UNION {[1..k -> alphabet] : k \in 0..n}

NoEnv == [TMUX |-> FALSE, STY |-> FALSE]

-----------------------------------------------------------------------------
(* The token meter *)

TokenAlphabet == {"a", "b", " ", "\n"}

InitTokens ==
    /\ op = "init"
    /\ text \in Strings(TokenAlphabet, MaxTextLen)
    /\ max_tokens \in (-MinTok)..MaxTok
    /\ reverse \in BOOLEAN
    /\ prompt = <<>>
    /\ max_commands = 0
    /\ commands = <<>>
    /\ env = NoEnv
    /\ proc = "ok"
    /\ tmpfile = "absent"
    /\ flat = <<>>
    /\ result = NoResult

CallCountTokens ==
    /\ op = "init"
    /\ op' = "count_tokens"
    /\ result' = IntResult(count_tokens(text))
    /\ UNCHANGED <<text, prompt, max_tokens, max_commands, reverse, commands,
                   env, proc, tmpfile, flat>>

CallTruncateTokens ==
    /\ op = "init"
    /\ op' = "truncate_tokens"
    /\ result' = StrResult(truncate_tokens(text, max_tokens, reverse))
    /\ UNCHANGED <<text, prompt, max_tokens, max_commands, reverse, commands,
                   env, proc, tmpfile, flat>>

NextTokens == CallCountTokens \/ CallTruncateTokens

SpecTokens == InitTokens /\ [][NextTokens]_vars

\* C3: truncate_tokens returns the empty string whenever max_tokens <= 0, in
\* both directions.
C3_NonPositiveYieldsEmpty ==
    (op = "truncate_tokens" /\ max_tokens <= 0) => result.str = <<>>

\* C7: truncate_tokens returns the text unchanged, in both directions, whenever
\* max_tokens >= count_tokens(text).
C7_NoOpWithinBudget ==
    (op = "truncate_tokens" /\ max_tokens >= count_tokens(text))
        => (result.kind = "str" /\ result.str = text)

C7_Witness ==
    /\ op = "truncate_tokens"
    /\ reverse
    /\ Len(text) = 3
    /\ count_tokens(text) = 2
    /\ max_tokens = 2
    /\ result.str = text

-----------------------------------------------------------------------------
(* Flat mode: truncate_pane_output *)

\* The loop of truncate_pane_output over reversed(output.splitlines()): rlines
\* is the reversed list, i the position in it, lines the list built so far
\* (newest first).
RECURSIVE PaneLoop(_, _, _, _)
PaneLoop(rlines, i, hit_non_empty_line, lines) ==
    IF i > Len(rlines) THEN lines
    ELSE LET line == rlines[i]
             hit == hit_non_empty_line \/ (line # <<>> /\ Strip(line) # <<>>)
         IN  PaneLoop(rlines, i + 1, hit,
                      IF hit THEN Append(lines, line) ELSE lines)

pane_lines_keep_wut(output) ==
    Join(Reverse(PaneLoop(Reverse(SplitLines(output)), 1, FALSE, <<>>)))

\* The text truncate_pane_output hands to truncate_tokens.
pane_lines(output) ==
    LET lines == PaneLoop(Reverse(SplitLines(output)), 1, FALSE, <<>>)
    IN  Join(Reverse(SliceFrom(lines, 1)))

truncate_pane_output(output, n) ==
    Strip(truncate_tokens(pane_lines(output), n, TRUE))

FlatAlphabet == {"a", " ", "\n"}

InitFlat ==
    /\ op = "init"
    /\ text \in Strings(FlatAlphabet, MaxFlatLen)
    /\ max_tokens \in 0..MaxTok
    /\ reverse = TRUE
    /\ prompt = <<>>
    /\ max_commands = 0
    /\ commands = <<>>
    /\ env = NoEnv
    /\ proc = "ok"
    /\ tmpfile = "absent"
    /\ flat = <<>>
    /\ result = NoResult

CallTruncatePaneOutput ==
    /\ op = "init"
    /\ op' = "truncate_pane_output"
    /\ flat' = pane_lines(text)
    /\ result' = StrResult(truncate_pane_output(text, max_tokens))
    /\ UNCHANGED <<text, prompt, max_tokens, max_commands, reverse, commands,
                   env, proc, tmpfile>>

NextFlat == CallTruncatePaneOutput

SpecFlat == InitFlat /\ [][NextFlat]_vars

IsBlank(line) == Strip(line) = <<>>

\* The index of the last non-blank line of ls, 0 when every line is blank.
LastNonBlank(ls) ==
    LET nb == {i \in 1..Len(ls) : ~IsBlank(ls[i])}
    IN  IF nb = {} THEN 0 ELSE CHOOSE i \in nb : \A j \in nb : j <= i

\* C8: the text kept by flat mode is the pane's lines in their order, without
\* the trailing blank lines and without the last non-blank line; blank lines
\* above it stay, and a pane with no non-blank line gives the empty string.
C8_FlatDropsTrailingBlanksAndLastLine ==
    op = "truncate_pane_output" =>
        LET ls == SplitLines(text)
            k == LastNonBlank(ls)
        IN  flat = Join(SubSeq(ls, 1, k - 1))

C8_Witness ==
    /\ op = "truncate_pane_output"
    /\ LET ls == SplitLines(text)
           k == LastNonBlank(ls)
       IN  /\ k >= 3
           /\ Len(ls) > k
           /\ \E i \in 1..(k - 1) : IsBlank(ls[i])
           /\ flat = Join(SubSeq(ls, 1, k - 1))
           /\ flat # <<>>

-----------------------------------------------------------------------------
(* Prompt mode: get_commands *)

\* The loop of get_commands over reversed(pane_output.splitlines()).  The
\* result is the list built (newest first), or the IndexError raised by
\* line.split(shell.prompt, 1)[1] when the split finds no separator.
RECURSIVE CommandsLoop(_, _, _, _, _)
CommandsLoop(rlines, i, shell_prompt, buffer, cmds) ==
    IF i > Len(rlines) THEN [exc |-> "", cmds |-> cmds]
    ELSE LET line == rlines[i] IN
         IF Strip(line) = <<>>
         THEN CommandsLoop(rlines, i + 1, shell_prompt, buffer, cmds)
         ELSE IF Contains(Lower(shell_prompt), Lower(line))
         THEN LET parts == Split1(line, shell_prompt) IN
              IF Len(parts) < 2
              THEN [exc |-> "IndexError: line.split(shell.prompt, 1)[1]",
                    cmds |-> <<>>]
              ELSE CommandsLoop(rlines, i + 1, shell_prompt, <<>>,
                       Append(cmds, Command(Strip(parts[2]),
                                            Strip(Join(Reverse(buffer))))))
         ELSE CommandsLoop(rlines, i + 1, shell_prompt,
                           Append(buffer, line), cmds)

get_commands(pane_output, shell_prompt) ==
    LET r == CommandsLoop(Reverse(SplitLines(pane_output)), 1, shell_prompt,
                          <<>>, <<>>)
    IN  IF r.exc # "" THEN r ELSE [r EXCEPT !.cmds = SliceFrom(r.cmds, 1)]

PaneAlphabet == {"p", "P", "a", " ", "\n"}

\* get_shell_prompt strips the prompt and turns "" into None.
Prompts == {<<"p">>, <<"P">>, <<"P", "a">>}

InitSegment ==
    /\ op = "init"
    /\ text \in Strings(PaneAlphabet, MaxPaneLen)
    /\ prompt \in Prompts
    /\ max_tokens = 0
    /\ reverse = FALSE
    /\ max_commands = 0
    /\ commands = <<>>
    /\ env = NoEnv
    /\ proc = "ok"
    /\ tmpfile = "absent"
    /\ flat = <<>>
    /\ result = NoResult

CallGetCommands ==
    /\ op = "init"
    /\ op' = "get_commands"
    /\ LET r == get_commands(text, prompt)
       IN  result' = IF r.exc # "" THEN Raised(r.exc) ELSE CmdsResult(r.cmds)
    /\ UNCHANGED <<text, prompt, max_tokens, max_commands, reverse, commands,
                   env, proc, tmpfile, flat>>

NextSegment == CallGetCommands

SpecSegment == InitSegment /\ [][NextSegment]_vars

\* A prompt line: a non-blank line that contains the prompt, compared without
\* regard to case.
IsPromptLine(line, p) == ~IsBlank(line) /\ Contains(Lower(p), Lower(line))

\* The indices of the prompt lines of ls, ascending.
RECURSIVE PromptLineIdx(_, _, _)
PromptLineIdx(ls, p, i) ==
    IF i > Len(ls) THEN <<>>
    ELSE (IF IsPromptLine(ls[i], p) THEN <<i>> ELSE <<>>)
             \o PromptLineIdx(ls, p, i + 1)

\* The trimmed rest of a prompt line after the first occurrence of the prompt,
\* found without regard to case.
TextAfterPrompt(line, p) ==
    LET j == Find(Lower(p), Lower(line))
    IN  Strip(SubSeq(line, j + Len(p), Len(line)))

\* The non-blank lines of ls strictly between indices lo and hi, joined.
OutputBetween(ls, lo, hi) ==
    LET RECURSIVE Keep(_)
        Keep(i) == IF i >= hi THEN <<>>
                   ELSE (IF IsBlank(ls[i]) THEN <<>> ELSE <<ls[i]>>) \o Keep(i + 1)
    IN  Strip(Join(Keep(lo + 1)))

\* The records of the prompt lines of pane text t, oldest first, the
\* bottom-most prompt line included.
Records(t, p) ==
    LET ls == SplitLines(t)
        idx == PromptLineIdx(ls, p, 1)
    IN  [r \in 1..Len(idx) |->
            Command(TextAfterPrompt(ls[idx[r]], p),
                    OutputBetween(ls, idx[r],
                        IF r < Len(idx) THEN idx[r + 1] ELSE Len(ls) + 1))]

Texts(cmds) == [i \in 1..Len(cmds) |-> cmds[i].text]

\* C2: prompt matching is case-insensitive end to end: get_commands does not
\* fail, and every prompt line (but the bottom-most, which is dropped) gives a
\* command whose text is the trimmed rest of the line after the prompt.
C2_CaseInsensitiveMatch ==
    op = "get_commands" =>
        /\ result.kind = "cmds"
        /\ Texts(result.cmds) = SliceFrom(Reverse(Texts(Records(text, prompt))), 1)

\* C5: get_commands returns exactly the records of all prompt lines but the
\* bottom-most, newest first: k >= 1 prompt lines give k - 1 records, and no
\* prompt line gives none.
C5_ExcludesNewestRecord ==
    op = "get_commands" =>
        /\ result.kind = "cmds"
        /\ result.cmds = SliceFrom(Reverse(Records(text, prompt)), 1)

-----------------------------------------------------------------------------
(* The budgeted truncator: truncate_commands *)

\* The inner loop of truncate_commands over reversed(command.output
\* .splitlines()): the lines kept, newest first, up to the first line that
\* does not fit.
RECURSIVE OutputLoop(_, _, _, _, _)
OutputLoop(rlines, i, num_tokens, n, output) ==
    IF i > Len(rlines) THEN output
    ELSE IF count_tokens(rlines[i]) + num_tokens > n THEN output
    ELSE OutputLoop(rlines, i + 1, num_tokens, n, Append(output, rlines[i]))

\* The outer loop with a budget that shrinks by what was accepted.
RECURSIVE CumulativeLoop(_, _, _, _, _)
CumulativeLoop(cmds, i, num_tokens, n, truncated_commands) ==
    IF i > Len(cmds) THEN truncated_commands
    ELSE LET command_tokens == count_tokens(cmds[i].text) IN
         IF command_tokens + num_tokens > n THEN truncated_commands
         ELSE LET output == OutputLoop(Reverse(SplitLines(cmds[i].output)), 1,
                                       num_tokens, n, <<>>)
              IN  CumulativeLoop(cmds, i + 1, num_tokens + command_tokens, n,
                      Append(truncated_commands,
                             Command(cmds[i].text, Join(Reverse(output)))))

truncate_commands_cumulative(cmds, n) == CumulativeLoop(cmds, 1, 0, n, <<>>)

\* The outer loop of truncate_commands; num_tokens is never added to.
RECURSIVE TruncateLoop(_, _, _, _, _)
TruncateLoop(cmds, i, num_tokens, n, truncated_commands) ==
    IF i > Len(cmds) THEN truncated_commands
    ELSE LET command_tokens == count_tokens(cmds[i].text) IN
         IF command_tokens + num_tokens > n THEN truncated_commands
         ELSE LET output == OutputLoop(Reverse(SplitLines(cmds[i].output)), 1,
                                       num_tokens, n, <<>>)
              IN  TruncateLoop(cmds, i + 1, num_tokens, n,
                      Append(truncated_commands,
                             Command(cmds[i].text, Join(Reverse(output)))))

truncate_commands(cmds, n) == TruncateLoop(cmds, 1, 0, n, <<>>)

CommandTexts == {<<>>, <<"a">>, <<"a", "a", " ", "a">>}
CommandOutputs == {<<>>, <<"a", " ", "a", "\n", "a">>}

CommandSet == {Command(t, o) : t \in CommandTexts, o \in CommandOutputs}

InitTruncate ==
    /\ op = "init"
    /\ commands \in UNION {[1..k -> CommandSet] : k \in 0..MaxCmds}
    /\ max_tokens \in (-MinTok)..MaxTok
    /\ text = <<>>
    /\ prompt = <<>>
    /\ reverse = FALSE
    /\ max_commands = 0
    /\ env = NoEnv
    /\ proc = "ok"
    /\ tmpfile = "absent"
    /\ flat = <<>>
    /\ result = NoResult

CallTruncateCommands ==
    /\ op = "init"
    /\ op' = "truncate_commands"
    /\ result' = CmdsResult(truncate_commands(commands, max_tokens))
    /\ UNCHANGED <<text, prompt, max_tokens, max_commands, reverse, commands,
                   env, proc, tmpfile, flat>>

NextTruncate == CallTruncateCommands

SpecTruncate == InitTruncate /\ [][NextTruncate]_vars

\* The length of the longest prefix of cmds in which every command text has at
\* most n tokens.
FittingPrefix(cmds, n) ==
    LET ok == {k \in 0..Len(cmds) :
                  \A i \in 1..k : count_tokens(cmds[i].text) <= n}
    IN  CHOOSE k \in ok : \A j \in ok : j <= k

\* C6: truncate_commands returns, text for text and in order, the longest
\* prefix of its input in which every command text has at most max_tokens
\* tokens, whatever was accepted before.
C6_StopsAtFirstOversizeText ==
    op = "truncate_commands" =>
        Texts(result.cmds) =
            Texts(SubSeq(commands, 1, FittingPrefix(commands, max_tokens)))

C6_Witness ==
    /\ op = "truncate_commands"
    /\ Len(commands) = 4
    /\ max_tokens = 1
    /\ count_tokens(commands[1].text) = 1
    /\ count_tokens(commands[2].text) = 1
    /\ count_tokens(commands[3].text) > 1
    /\ count_tokens(commands[4].text) <= 1
    /\ Len(result.cmds) = 2

-----------------------------------------------------------------------------
(* The pane capturer: get_pane_output *)

Outcomes == {"ok", "nonzero", "missing"}

\* One call of get_pane_output.  e tells which of TMUX and STY are set, p how
\* the child process ends ("missing": the executable cannot be started, and
\* run / check_output raise FileNotFoundError), scrollback what the multiplexer
\* writes when it succeeds.  tmux reports a failure on stderr, so a failed
\* capture-pane leaves the file given as its stdout empty.
get_pane_output(e, p, scrollback) ==
    IF e.TMUX THEN
        IF p = "missing"
        THEN [exc |-> "FileNotFoundError", output |-> <<>>, tmpfile |-> "exists"]
        ELSE [exc |-> "", tmpfile |-> "removed",
              output |-> IF p = "ok" THEN scrollback ELSE <<>>]
    ELSE IF e.STY THEN
        IF p = "missing"
        THEN [exc |-> "FileNotFoundError", output |-> <<>>, tmpfile |-> "exists"]
        ELSE IF p = "nonzero"
        THEN [exc |-> "", output |-> <<>>, tmpfile |-> "removed"]
        ELSE [exc |-> "", output |-> scrollback, tmpfile |-> "removed"]
    ELSE [exc |-> "", output |-> <<>>, tmpfile |-> "exists"]

-----------------------------------------------------------------------------
(* The context assembler: get_terminal_context *)

command_to_string(command, shell_prompt) ==
    (IF shell_prompt # <<>> THEN shell_prompt ELSE <<"$">>)
        \o <<" ">> \o command.text
        \o (IF Strip(command.output) # <<>>
            THEN <<"\n">> \o command.output ELSE <<>>)

ordered_commands_newest_first(pane_output, shell_prompt, n, max_cmds) ==
    LET r == get_commands(pane_output, shell_prompt)
    IN  IF r.exc # "" THEN r
        ELSE [r EXCEPT !.cmds = truncate_commands(SliceTo(r.cmds, max_cmds), n)]

\* The commands get_terminal_context renders, oldest first.
ordered_commands(pane_output, shell_prompt, n, max_cmds) ==
    LET r == get_commands(pane_output, shell_prompt)
    IN  IF r.exc # "" THEN r
        ELSE [r EXCEPT !.cmds =
                  Reverse(truncate_commands(SliceTo(r.cmds, max_cmds), n))]

\* get_terminal_context once get_pane_output has returned pane_output.
terminal_context(pane_output, shell_prompt, n, max_cmds) ==
    IF pane_output = <<>>
    THEN StrResult(<<"<terminal_history>", "No terminal output found.",
                     "</terminal_history>">>)
    ELSE IF shell_prompt = <<>>
    THEN StrResult(<<"<terminal_history>", "\n">>
                       \o truncate_pane_output(pane_output, n)
                       \o <<"\n", "</terminal_history>">>)
    ELSE LET r == ordered_commands(pane_output, shell_prompt, n, max_cmds) IN
         IF r.exc # "" THEN Raised(r.exc)
         ELSE IF r.cmds = <<>> THEN Raised("IndexError: commands[-1]")
         ELSE LET previous_commands == SliceTo(r.cmds, -1)
                  last_command == r.cmds[Len(r.cmds)]
              IN  [StrResult(
                      <<"<terminal_history>", "\n", "<previous_commands>", "\n">>
                      \o Join([i \in 1..Len(previous_commands) |->
                                 command_to_string(previous_commands[i],
                                                   shell_prompt)])
                      \o <<"\n", "</previous_commands>", "\n">>
                      \o <<"\n", "<last_command>", "\n">>
                      \o command_to_string(last_command, shell_prompt)
                      \o <<"\n", "</last_command>">>
                      \o <<"\n", "</terminal_history>">>)
                   EXCEPT !.previous = previous_commands,
                          !.last = <<last_command>>]

PaneLineSet ==
    {<<>>, <<"a">>, <<"p">>, <<"p", "a">>, <<"P", "a">>}

\* The scrollbacks of at most MaxPaneLines lines.
PaneTexts == {Join(ls) : ls \in UNION {[1..k -> PaneLineSet] : k \in 0..MaxPaneLines}}

Init ==
    /\ op = "init"
    /\ env \in [TMUX : BOOLEAN, STY : BOOLEAN]
    /\ proc \in (IF env.TMUX \/ env.STY THEN Outcomes ELSE {"none"})
    /\ text \in PaneTexts
    /\ prompt \in {<<>>, <<"p">>}
    /\ max_tokens \in 0..MaxCtxTok
    /\ max_commands \in 0..MaxCommandsArg
    /\ reverse = FALSE
    /\ commands = <<>>
    /\ tmpfile = "absent"
    /\ flat = <<>>
    /\ result = NoResult

CallGetPaneOutput ==
    /\ op = "init"
    /\ op' = "get_pane_output"
    /\ LET r == get_pane_output(env, proc, text)
       IN  /\ tmpfile' = r.tmpfile
           /\ result' = IF r.exc # "" THEN Raised(r.exc) ELSE StrResult(r.output)
    /\ UNCHANGED <<text, prompt, max_tokens, max_commands, reverse, commands,
                   env, proc, flat>>

CallGetTerminalContext ==
    /\ op = "init"
    /\ op' = "get_terminal_context"
    /\ LET r == get_pane_output(env, proc, text)
       IN  /\ tmpfile' = r.tmpfile
           /\ result' = IF r.exc # "" THEN Raised(r.exc)
                        ELSE terminal_context(r.output, prompt, max_tokens,
                                              max_commands)
           /\ flat' = IF r.exc = "" /\ r.output # <<>> /\ prompt = <<>>
                      THEN pane_lines(r.output) ELSE flat
    /\ UNCHANGED <<text, prompt, max_tokens, max_commands, reverse, commands,
                   env, proc>>

Next == CallGetPaneOutput \/ CallGetTerminalContext

Spec == Init /\ [][Next]_vars

Called == op \in {"get_pane_output", "get_terminal_context"}

MultiplexerActive == env.TMUX \/ env.STY

\* C1: when a call of get_pane_output has returned or failed, the temporary
\* file it created no longer exists, whichever way the call ended.
C1_TempFileAlwaysRemoved ==
    Called => tmpfile # "exists"

\* C4: every failure of the multiplexer command (a non-zero exit, or an
\* executable that cannot be started) is swallowed by get_pane_output, which
\* then returns the empty string.
C4_CaptureFailureSwallowed ==
    (op = "get_pane_output" /\ MultiplexerActive /\ proc # "ok")
        => (result.kind = "str" /\ result.str = <<>>)

\* What get_pane_output handed to get_terminal_context in this state.
Captured == get_pane_output(env, proc, text)

\* C9: in prompt mode with max_commands >= 1 and a command surviving
\* truncation, the rendered commands are the most recent ones before the
\* tool's own invocation, at most max_commands of them, oldest first: the
\* last_command block holds the newest segmented command and
\* previous_commands the ones before it, in pane order.
C9_RenderedOldestFirst ==
    (/\ op = "get_terminal_context"
     /\ prompt # <<>>
     /\ max_commands >= 1
     /\ result.kind = "str"
     /\ result.last # <<>>)
        => LET rendered == Texts(result.previous \o result.last)
               all == Texts(Records(Captured.output, prompt))
               before == SubSeq(all, 1, Len(all) - 1)
           IN  /\ Len(rendered) <= max_commands
               /\ Len(rendered) <= Len(before)
               /\ rendered = SubSeq(before, Len(before) - Len(rendered) + 1,
                                    Len(before))
               /\ Len(result.last) = 1
               /\ Len(result.previous) = Len(rendered) - 1

C9_Witness ==
    /\ op = "get_terminal_context"
    /\ prompt # <<>>
    /\ max_commands = 2
    /\ result.kind = "str"
    /\ Len(result.previous) = 1
    /\ result.previous[1].text = <<"a">>
    /\ result.last[1].text = <<>>
    /\ Len(Records(Captured.output, prompt)) = 4

\* C10: for a non-empty pane text and a non-empty prompt, get_terminal_context
\* returns a context string that starts with <terminal_history> and ends with
\* </terminal_history>, also when no command is left to render; the access to
\* the last command never fails.  (Stated for the panes get_commands
\* segments without failing.)
C10_WellFormedWhenNoCommands ==
    (/\ op = "get_terminal_context"
     /\ Captured.exc = ""
     /\ Captured.output # <<>>
     /\ prompt # <<>>
     /\ get_commands(Captured.output, prompt).exc = "")
        => /\ result.kind = "str"
           /\ Head(result.str) = "<terminal_history>"
           /\ result.str[Len(result.str)] = "</terminal_history>"

=============================================================================
